---- MODULE Spec2Model ----
(***************************************************************************)
(* Model of sort_images.py: the metric extractor get_image_metrics, the    *)
(* verdict engine evaluate_image and the batch loop of main.               *)
(*                                                                         *)
(* Numbers.  Python floats are modelled as fixed-point integers counted in *)
(* thousandths (1.0 is 1000), so that the two- and one-decimal renderings  *)
(* of the diagnostic line (":.2f", ":.1f") are real roundings and not the  *)
(* identity.  Pixel sizes and ISO are Python ints and are kept as plain    *)
(* integers.                                                               *)
(*                                                                         *)
(* Raw metadata values.  A tag of the mapping returned by ExifTool is a    *)
(* tagged value [t, v]: "none" (the tag is absent), "num" (a JSON number   *)
(* or a numeric string, value v), "inf" (the string "inf", which float()   *)
(* accepts) or "bad" (any other string, which float() and int() reject).   *)
(*                                                                         *)
(* Strings.  A formatted string is kept as its parts: a reason is          *)
(* [kind, args], a segment of the diagnostic line is                       *)
(* [label, text, num, status].                                             *)
(***************************************************************************)
EXTENDS Integers, Sequences, FiniteSets, TLC

VARIABLES
    cfg,        \* main: cfg, the thresholds returned by load_config
    md,         \* the metadata source's answer for the current file
    img,        \* the visual analysis' answer for the current file
    metrics,    \* get_image_metrics: the metrics dictionary it returned
    result,     \* evaluate_image: what it returned, or the exception it raised
    pc,         \* position in the per-image pipeline / in main
    listing,    \* main: os.listdir(base_dir)
    files,      \* main: files, the listing filtered by extension
    idx,        \* main: number of entries of files the loop has consumed
    log,        \* main: the lines logging.info appended to sorting_log.txt
    moves,      \* main: the shutil.move calls attempted, in order
    calls       \* the answers the collaborators gave, one per get_image_metrics call

vars ==
    <<cfg, md, img, metrics, result, pc, listing, files, idx, log, moves, calls>>

----------------------------------------------------------------------------
(* Fixed point and raw values *)

\* an integer as a fixed-point value: thousandths
Milli(n) == n * 1000

None == "None"

NoTag == [t |-> "none", v |-> 0]
Num(n) == [t |-> "num", v |-> n]
Inf == [t |-> "inf", v |-> 0]
Bad == [t |-> "bad", v |-> 0]

\* metadata.get(key, default)
Get(tag, default) == IF tag.t = "none" THEN Num(default) ELSE tag

\* Python truthiness of a raw value: 0 and 0.0 are falsy, a non-empty string is truthy
Truthy(x) == IF x.t = "num" THEN x.v # 0 ELSE x.t # "none"

\* float(x) succeeds on numbers, numeric strings and "inf".  Only the two
\* focal-length tags of the inputs hold "inf"; the focal length is kept tagged,
\* every other float is its fixed-point value x.v
FloatOk(x) == x.t \in {"num", "inf"}

\* int(x) succeeds on integers only: int("inf") is a ValueError
IntOk(x) == x.t = "num"

\* w == 0 on a raw value: a string never equals 0
IsZero(x) == x.t = "num" /\ x.v = 0

RECURSIVE SqrtSearch(_, _, _)
SqrtSearch(n, lo, hi) ==
    IF lo >= hi THEN lo
    ELSE LET mid == (lo + hi + 1) \div 2
         IN IF mid * mid <= n THEN SqrtSearch(n, mid, hi)
                              ELSE SqrtSearch(n, lo, mid - 1)

\* math.sqrt on fixed-point values: the nearest representable root
Sqrt(n) ==
    LET s == SqrtSearch(n, 0, 46340)
    IN IF n - s * s > s THEN s + 1 ELSE s

\* round-half-even of v / q, the rounding of Python's format()
RoundDiv(v, q) ==
    LET f == v \div q
        r == v % q
    IN IF 2 * r < q THEN f
       ELSE IF 2 * r > q THEN f + 1
       ELSE IF f % 2 = 0 THEN f ELSE f + 1

\* f"{val:.2f}": the value in hundredths
Fmt2(v) == RoundDiv(v, 10)

\* f"{val:.1f}": the value in tenths
Fmt1(v) == RoundDiv(v, 100)

\* int(x) of a float: truncation toward zero
Trunc(v) == IF v >= 0 THEN v \div 1000 ELSE -((-v) \div 1000)

----------------------------------------------------------------------------
(* load_config: DEFAULT_CONFIG *)

DefaultConfig ==
    [min_dist |-> 20000, max_speed |-> 5000, max_zoom |-> 1000,
     min_blur |-> 100000, min_w |-> 3000, min_h |-> 2000, max_iso |-> 1600,
     min_bright |-> 20000, max_bright |-> 240000]

----------------------------------------------------------------------------
(* get_image_metrics *)

\* the metrics dictionary as initialised at lines 94-107
InitialMetrics ==
    [width |-> Num(0), height |-> Num(0), digital_zoom |-> 1000,
     focal_length |-> Num(0), iso |-> 0, blur_score |-> 0, brightness |-> 0,
     distance |-> 9999000, speed |-> 0, gimbal_pitch |-> 0,
     load_error |-> None, meta_error |-> None, has_distance |-> FALSE]

\* except Exception as e: metrics['meta_error'] = str(e)
MetaRaise(m, text) == [m EXCEPT !.meta_error = text]

\* Resolution, lines 116-121: the raw values are stored unconverted
WithResolution(m, d) ==
    LET w0 == Get(d.ExifImageWidth, 0)
        h0 == Get(d.ExifImageHeight, 0)
        w == IF IsZero(w0) THEN Get(d.ImageWidth, 0) ELSE w0
        h == IF IsZero(h0) THEN Get(d.ImageHeight, 0) ELSE h0
    IN [m EXCEPT !.width = w, !.height = h]

\* line 129: a or b, then float()
FocalRaw(d) ==
    LET a == Get(d.FocalLength35efl, 0)
    IN IF Truthy(a) THEN a ELSE Get(d.FocalLengthIn35mmFormat, 0)

\* lines 139-147: the magnitude of the first three components, when every
\* component of the string parses and there are at least three
SpeedOf(m, d) ==
    LET s == d.FlightSpeed
    IN IF s.t = "none" THEN m.speed
       ELSE IF \E i \in 1..Len(s.parts) : ~FloatOk(s.parts[i]) THEN m.speed
       ELSE IF Len(s.parts) >= 3
            THEN Sqrt(s.parts[1].v * s.parts[1].v + s.parts[2].v * s.parts[2].v
                      + s.parts[3].v * s.parts[3].v)
            ELSE m.speed

\* variant: has_distance is set whether or not the tag is there
WithDistance_AlwaysSet(m, d) ==
    IF d.LRFTargetDistance.t = "none" THEN [m EXCEPT !.has_distance = TRUE]
    ELSE [m EXCEPT !.distance = d.LRFTargetDistance.v, !.has_distance = TRUE]

\* lines 131-136
WithDistance(m, d) ==
    IF d.LRFTargetDistance.t = "none" THEN m
    ELSE [m EXCEPT !.distance = d.LRFTargetDistance.v, !.has_distance = TRUE]

\* lines 113-150 under the try of line 110: the first conversion that raises
\* ends the block, and what was stored before it stays stored
ReadMetadata(m, d) ==
    LET m1 == WithResolution(m, d)
        zoom == Get(d.DigitalZoomRatio, 1000)
        iso == Get(d.ISO, 0)
        focal == FocalRaw(d)
        pitch == Get(d.GimbalPitchDegree, 0)
    IN IF ~FloatOk(zoom) THEN MetaRaise(m1, "ValueError")
       ELSE LET m2 == [m1 EXCEPT !.digital_zoom = zoom.v]
       IN IF ~IntOk(iso) THEN MetaRaise(m2, "ValueError")
       ELSE LET m3 == [m2 EXCEPT !.iso = iso.v]
       IN IF ~FloatOk(focal) THEN MetaRaise(m3, "ValueError")
       ELSE LET m4 == [m3 EXCEPT !.focal_length = focal]
       IN IF d.LRFTargetDistance.t \notin {"none", "num"}
          THEN MetaRaise(m4, "ValueError")
       ELSE LET m5 == WithDistance(m4, d)
                m6 == [m5 EXCEPT !.speed = SpeedOf(m5, d)]
       IN IF ~FloatOk(pitch) THEN MetaRaise(m6, "ValueError")
          ELSE [m6 EXCEPT !.gimbal_pitch = pitch.v]

\* variant: an empty answer is not recorded
MetadataExtraction_SilentEmpty(m, d) ==
    IF d.lookup = "throws" THEN MetaRaise(m, d.error)
    ELSE IF d.lookup = "empty" THEN m
    ELSE ReadMetadata(m, d)

\* 1. Metadata Extraction, lines 110-156
MetadataExtraction(m, d) ==
    IF d.lookup = "throws" THEN MetaRaise(m, d.error)
    ELSE IF d.lookup = "empty" THEN [m EXCEPT !.meta_error = "No Metadata Found"]
    ELSE ReadMetadata(m, d)

\* 2. Visual Analysis, lines 159-173
VisualAnalysis(m, i) ==
    IF i.status = "throws" THEN [m EXCEPT !.load_error = i.error]
    ELSE IF i.status = "none"
         THEN [m EXCEPT !.load_error = "Could not load image (Corrupt?)"]
    ELSE IF i.status = "mean_throws"
         THEN [m EXCEPT !.blur_score = i.sharpness, !.load_error = i.error]
    ELSE [m EXCEPT !.blur_score = i.sharpness, !.brightness = i.brightness]

get_image_metrics(d, i) ==
    VisualAnalysis(MetadataExtraction(InitialMetrics, d), i)

----------------------------------------------------------------------------
(* evaluate_image *)

\* variant: "<=" graded as "<"
Compare_Strict(val, threshold, operator) ==
    CASE operator = ">" -> val > threshold
      [] operator = "<" -> val < threshold
      [] operator = "<=" -> val < threshold
      [] operator = ">=" -> val >= threshold
      [] OTHER -> FALSE

\* variant: ">=" graded as "<="
Compare_GeFlipped(val, threshold, operator) ==
    CASE operator = ">" -> val > threshold
      [] operator = "<" -> val < threshold
      [] operator = "<=" -> val <= threshold
      [] operator = ">=" -> val <= threshold
      [] OTHER -> FALSE

Compare(val, threshold, operator) ==
    CASE operator = ">" -> val > threshold
      [] operator = "<" -> val < threshold
      [] operator = "<=" -> val <= threshold
      [] operator = ">=" -> val >= threshold
      [] OTHER -> FALSE

\* variant: the value is graded as it is displayed, after rounding
grade_Rounded(label, val, threshold, operator, unit) ==
    LET passed == Compare(Fmt2(val) * 10, threshold, operator)
    IN [str |-> [label |-> label, text |-> unit, num |-> Fmt2(val),
                 status |-> IF passed THEN "(PASS)" ELSE "(FAIL)"],
        passed |-> passed]

\* grade, lines 186-194: the rendering of the value and whether it passed
grade(label, val, threshold, operator, unit) ==
    LET passed == Compare(val, threshold, operator)
    IN [str |-> [label |-> label, text |-> unit, num |-> Fmt2(val),
                 status |-> IF passed THEN "(PASS)" ELSE "(FAIL)"],
        passed |-> passed]

Reason(kind, args) == [kind |-> kind, args |-> args]

\* reasons = [], is_good = True, lines 182-183
Start == [reasons |-> <<>>, is_good |-> TRUE]

\* reasons.append(...); is_good = False
Fail(st, reason) == [reasons |-> Append(st.reasons, reason), is_good |-> FALSE]

\* line 198 compares the stored raw values with ints: a string there is a
\* TypeError ("or" does not evaluate the height when the width is too small)
ResolutionRaises(m, c) ==
    \/ m.width.t # "num"
    \/ ~(m.width.v < c.min_w) /\ m.height.t # "num"

\* 1. Resolution, lines 197-200
ResolutionCheck(st, m, c) ==
    IF m.width.v < c.min_w \/ m.height.v < c.min_h
    THEN Fail(st, Reason("Low Resolution", <<m.width, m.height>>))
    ELSE st

\* Optical Labeling, lines 204-206
OpticalType(m) ==
    IF m.focal_length.t = "inf" \/ m.focal_length.v > 80000 THEN "Zoom" ELSE "Wide"

\* Digital Zoom Check, lines 209-212
ZoomGrade(m, c) == grade("DigZoom", m.digital_zoom, c.max_zoom, "<=", "x")

ZoomCheck(st, m, c) ==
    IF ~ZoomGrade(m, c).passed
    THEN Fail(st, Reason("Digital Zoom", <<m.digital_zoom>>)) ELSE st

\* 3. ISO, lines 215-218
IsoGrade(m, c) == grade("ISO", Milli(m.iso), Milli(c.max_iso), "<=", "")

IsoCheck(st, m, c) ==
    IF ~IsoGrade(m, c).passed THEN Fail(st, Reason("High ISO", <<m.iso>>)) ELSE st

\* 4. Distance (LRF), lines 221-228
DistGrade(m, c) == grade("Dist", m.distance, c.min_dist, ">=", "m")

DistStr(m, c) ==
    IF m.has_distance THEN DistGrade(m, c).str
    ELSE [label |-> "Dist", text |-> "N/A (No LRF)", num |-> 0, status |-> ""]

DistCheck(st, m, c) ==
    IF m.has_distance /\ ~DistGrade(m, c).passed
    THEN Fail(st, Reason("Too Close", <<m.distance, c.min_dist>>)) ELSE st

\* 5. Flight Speed, lines 231-234
SpeedGrade(m, c) == grade("Speed", m.speed, c.max_speed, "<=", "m/s")

SpeedCheck(st, m, c) ==
    IF ~SpeedGrade(m, c).passed
    THEN Fail(st, Reason("Moving Too Fast", <<Fmt1(m.speed)>>)) ELSE st

\* line 237: the test is the truth value of the text
HasLoadError(m) == m.load_error # None /\ m.load_error # ""

\* line 238: what was appended before is dropped
LoadErrorResult(m) ==
    [raised |-> None, is_good |-> FALSE,
     log_string |-> <<[label |-> "[ERROR] Could not load image",
                       text |-> m.load_error, num |-> 0, status |-> ""]>>,
     reasons |-> <<Reason(m.load_error, <<>>)>>]

\* Blur, lines 241-244
BlurGrade(m, c) == grade("Blur", m.blur_score, c.min_blur, ">=", "")

BlurCheck(st, m, c) ==
    IF ~BlurGrade(m, c).passed
    THEN Fail(st, Reason("Blurry", <<Fmt1(m.blur_score)>>)) ELSE st

\* Brightness, lines 247-257
BrightStatus(m, c) ==
    IF m.brightness < c.min_bright THEN "(FAIL: Dark)"
    ELSE IF m.brightness > c.max_bright THEN "(FAIL: Bright)"
    ELSE "(PASS)"

\* variant: two independent tests instead of if / elif
BrightCheck_TwoIfs(st, m, c) ==
    LET dark == IF m.brightness < c.min_bright
                THEN Fail(st, Reason("Too Dark", <<Fmt1(m.brightness)>>)) ELSE st
    IN IF m.brightness > c.max_bright
       THEN Fail(dark, Reason("Overexposed", <<Fmt1(m.brightness)>>)) ELSE dark

BrightCheck(st, m, c) ==
    IF m.brightness < c.min_bright
    THEN Fail(st, Reason("Too Dark", <<Fmt1(m.brightness)>>))
    ELSE IF m.brightness > c.max_bright
    THEN Fail(st, Reason("Overexposed", <<Fmt1(m.brightness)>>))
    ELSE st

BrightStr(m, c) ==
    [label |-> "Bright", text |-> "", num |-> Fmt1(m.brightness),
     status |-> BrightStatus(m, c)]

\* Construct Log String, lines 261-268
LogString(m, c) ==
    <<[label |-> "Lens", text |-> OpticalType(m),
       num |-> Trunc(m.focal_length.v), status |-> ""],
      ZoomGrade(m, c).str, DistStr(m, c), SpeedGrade(m, c).str,
      BlurGrade(m, c).str, BrightStr(m, c)>>

\* variant: the ISO check placed before the digital zoom check
EarlyChecks_IsoBeforeZoom(m, c) ==
    SpeedCheck(DistCheck(ZoomCheck(IsoCheck(ResolutionCheck(Start, m, c),
                                            m, c), m, c), m, c), m, c)

\* the checks made before the load-error test of line 237
EarlyChecks(m, c) ==
    SpeedCheck(DistCheck(IsoCheck(ZoomCheck(ResolutionCheck(Start, m, c),
                                            m, c), m, c), m, c), m, c)

\* an exception leaving evaluate_image
Raised(e) ==
    [raised |-> e, is_good |-> FALSE, log_string |-> <<>>, reasons |-> <<>>]

\* variant: the load error is appended to the reasons gathered before it
evaluate_image_KeepsEarlyReasons(m, c) ==
    IF ResolutionRaises(m, c) THEN Raised("TypeError")
    ELSE IF HasLoadError(m)
    THEN [LoadErrorResult(m) EXCEPT
            !.reasons = EarlyChecks(m, c).reasons \o LoadErrorResult(m).reasons]
    ELSE IF m.focal_length.t = "inf" THEN Raised("OverflowError")
    ELSE LET st == BrightCheck(BlurCheck(EarlyChecks(m, c), m, c), m, c)
         IN [raised |-> None, is_good |-> st.is_good,
             log_string |-> LogString(m, c), reasons |-> st.reasons]

\* evaluate_image, lines 177-270
evaluate_image(m, c) ==
    IF ResolutionRaises(m, c) THEN Raised("TypeError")
    ELSE IF HasLoadError(m) THEN LoadErrorResult(m)
    ELSE IF m.focal_length.t = "inf" THEN Raised("OverflowError")
    ELSE LET st == BrightCheck(BlurCheck(EarlyChecks(m, c), m, c), m, c)
         IN [raised |-> None, is_good |-> st.is_good,
             log_string |-> LogString(m, c), reasons |-> st.reasons]

----------------------------------------------------------------------------
(* The inputs: what the metadata source and the image loader answer *)

Vec(parts) == [t |-> "str", parts |-> parts]

NoVec == [t |-> "none", parts |-> <<>>]

\* a DJI photograph that passes every default threshold
NominalMD ==
    [lookup |-> "ok", error |-> None,
     ExifImageWidth |-> Num(4000), ExifImageHeight |-> Num(3000),
     ImageWidth |-> NoTag, ImageHeight |-> NoTag,
     DigitalZoomRatio |-> Num(1000), ISO |-> Num(400),
     FocalLength35efl |-> Num(24000), FocalLengthIn35mmFormat |-> NoTag,
     LRFTargetDistance |-> Num(50000),
     FlightSpeed |-> Vec(<<Num(1200), Num(0), Num(0)>>),
     GimbalPitchDegree |-> Num(-90000)]

\* every combination of passing and failing metadata criteria
CriteriaMD ==
    {[NominalMD EXCEPT !.ExifImageWidth = w, !.DigitalZoomRatio = z, !.ISO = i,
                       !.LRFTargetDistance = d, !.FlightSpeed = s] :
        w \in {Num(4000), Num(2999)},
        z \in {NoTag, Num(1000), Num(1004)},
        i \in {Num(1600), Num(2000)},
        d \in {NoTag, Num(50000), Num(19996)},
        s \in {Vec(<<Num(3000), Num(4000), Num(0)>>),
               Vec(<<Num(3000), Num(-4000), Num(100)>>)}}

\* the resolution tags and their fallbacks
ResolutionMD ==
    {[NominalMD EXCEPT !.ExifImageWidth = w, !.ImageWidth = iw,
                       !.ExifImageHeight = h, !.ImageHeight = ih] :
        w \in {NoTag, Num(0), Num(4000), Bad},
        iw \in {NoTag, Num(3000), Bad},
        h \in {NoTag, Num(1999), Bad},
        ih \in {NoTag, Num(2500)}}

\* the focal-length tags
FocalMD ==
    {[NominalMD EXCEPT !.FocalLength35efl = a, !.FocalLengthIn35mmFormat = b,
                       !.ISO = i] :
        a \in {NoTag, Num(0), Num(80000), Num(80001), Num(120900), Inf, Bad},
        b \in {NoTag, Num(24000), Num(166000)},
        i \in {NoTag, Num(400)}}

\* at most one unparsable value among zoom, ISO and focal length
ConvertedTags ==
    {<<Num(1000), Num(400), Num(24000)>>, <<Bad, Num(400), Num(24000)>>,
     <<Num(1000), Bad, Num(24000)>>, <<Num(1000), Num(400), Bad>>}

\* unparsable values in the converted tags
MalformedMD ==
    {[NominalMD EXCEPT !.DigitalZoomRatio = c[1], !.ISO = c[2],
                       !.FocalLength35efl = c[3],
                       !.LRFTargetDistance = d, !.FlightSpeed = s,
                       !.GimbalPitchDegree = g] :
        c \in ConvertedTags,
        d \in {NoTag, Num(50000), Bad},
        s \in {NoVec, Vec(<<Num(3000), Num(4000), Num(0)>>),
               Vec(<<Num(3000), Num(4000)>>),
               Vec(<<Num(3000), Bad, Num(0)>>),
               Vec(<<Num(6000), Num(0), Num(8000), Bad>>),
               Vec(<<Num(6000), Num(0), Num(8000), Num(1000)>>)},
        g \in {NoTag, Bad}}

\* et.get_metadata raising, or returning an empty list
FailedMD ==
    {[NominalMD EXCEPT !.lookup = "throws", !.error = "ExifToolExecuteError"],
     [NominalMD EXCEPT !.lookup = "empty"]}

Metadata == CriteriaMD \cup ResolutionMD \cup FocalMD \cup MalformedMD \cup FailedMD

NominalImage ==
    [status |-> "ok", sharpness |-> 300000, brightness |-> 120000, error |-> None]

\* cv2.imread returning an image, returning None, or raising; cv2.mean raising
Images ==
    {[NominalImage EXCEPT !.sharpness = b, !.brightness = v] :
        b \in {300000, 99996},
        v \in {19960, 20000, 120000, 240000, 240040}}
    \cup {[NominalImage EXCEPT !.status = "none"],
          [NominalImage EXCEPT !.status = "throws", !.error = "cv2.error"],
          [NominalImage EXCEPT !.status = "mean_throws", !.error = "cv2.error"]}

\* the thresholds of config.ini: the defaults, a file whose brightness bounds
\* are crossed, and a permissive file
Configs ==
    {DefaultConfig,
     [DefaultConfig EXCEPT !.min_bright = 200000, !.max_bright = 100000],
     [min_dist |-> 0, max_speed |-> 10000, max_zoom |-> 2000, min_blur |-> 0,
      min_w |-> 0, min_h |-> 0, max_iso |-> 6400, min_bright |-> 0,
      max_bright |-> 255000]}

----------------------------------------------------------------------------
(* main *)

\* a directory entry: its name (stem and extension), whether it is a regular
\* file, and which photograph it holds
Entry(stem, ext, isfile, content) ==
    [stem |-> stem, ext |-> ext, isfile |-> isfile, content |-> content]

\* what et.get_metadata may answer for an entry
MetadataFor(e) ==
    CASE e.content = "any" -> Metadata
      [] e.content = "zoomed" -> {[NominalMD EXCEPT !.DigitalZoomRatio = Num(2500)]}
      [] e.content = "no metadata" ->
            {[NominalMD EXCEPT !.lookup = "throws", !.error = "ExifToolExecuteError"]}
      [] e.content = "text width" -> {[NominalMD EXCEPT !.ExifImageWidth = Bad]}
      [] e.content = "infinite focal" -> {[NominalMD EXCEPT !.FocalLength35efl = Inf]}
      [] OTHER -> {NominalMD}

\* what cv2 may answer for an entry
ImagesFor(e) ==
    CASE e.content = "any" -> Images
      [] e.content = "corrupt" -> {[NominalImage EXCEPT !.status = "none"]}
      [] OTHER -> {NominalImage}

\* f.lower() on the extensions of the inputs
Lower(ext) ==
    CASE ext = ".JPG" -> ".jpg"
      [] ext = ".Tiff" -> ".tiff"
      [] OTHER -> ext

\* valid_extensions, line 314
valid_extensions == {".jpg", ".jpeg", ".png", ".dng", ".tiff"}

\* line 315
Selected(e) == Lower(e.ext) \in valid_extensions

\* line 403: filepath.startswith(good_dir) or filepath.startswith(bad_dir),
\* with filepath = base_dir/filename and good_dir = base_dir/_GOOD_IMAGES
InOutputFolders(e) == e.stem \in {"_GOOD_IMAGES_best", "_BAD_IMAGES2"}

\* lines 403-407
Skipped(e) == InOutputFolders(e) \/ ~e.isfile

\* one photograph with any of the modelled answers
RichEntry == Entry("DJI_0001", ".jpg", TRUE, "any")

\* the entries the batch listings are made of
BasicEntries ==
    {Entry("DJI_0001", ".jpg", TRUE, "nominal"),
     Entry("DJI_0002", ".JPG", TRUE, "zoomed"),
     Entry("DJI_0003", ".png", TRUE, "corrupt"),
     Entry("DJI_0004", ".dng", TRUE, "no metadata"),
     Entry("DJI_0005", ".jpg", TRUE, "text width"),
     Entry("DJI_0006", ".jpeg", TRUE, "infinite focal"),
     Entry("folder", ".Tiff", FALSE, "nominal"),
     Entry("_GOOD_IMAGES_best", ".jpg", TRUE, "nominal"),
     Entry("_BAD_IMAGES2", ".png", TRUE, "nominal"),
     Entry("notes", ".txt", TRUE, "nominal")}

MaxFiles == 2

Listings ==
    {<<RichEntry>>} \cup UNION {[1..n -> BasicEntries] : n \in 0..MaxFiles}

\* before any file was evaluated
Pending ==
    [raised |-> "pending", is_good |-> FALSE, log_string |-> <<>>, reasons |-> <<>>]

Init ==
    /\ cfg \in Configs
    /\ listing \in Listings
    /\ files = <<>>
    /\ idx = 0
    /\ calls = <<>>
    /\ md = NominalMD
    /\ img = NominalImage
    /\ metrics = InitialMetrics
    /\ result = Pending
    /\ log = <<>>
    /\ moves = <<>>
    /\ pc = "list"

\* lines 313-323: the listing filtered by extension; nothing to do when empty
ListImages ==
    /\ pc = "list"
    /\ files' = SelectSeq(listing, Selected)
    /\ pc' = IF files' = <<>> THEN "done" ELSE "locate"
    /\ UNCHANGED <<cfg, md, img, metrics, result, listing, idx, log, moves, calls>>

\* lines 326-384: ExifTool is bundled, local or on the PATH, or main returns
LocateExifTool ==
    /\ pc = "locate"
    /\ \E found \in BOOLEAN : pc' = IF found THEN "start" ELSE "returned"
    /\ UNCHANGED <<cfg, md, img, metrics, result, listing, files, idx, log, moves, calls>>

\* lines 386-397: the helper starts, or raises into the handler of line 436
StartEngine ==
    /\ pc = "start"
    /\ \E started \in BOOLEAN : pc' = IF started THEN "loop" ELSE "critical"
    /\ UNCHANGED <<cfg, md, img, metrics, result, listing, files, idx, log, moves, calls>>

\* lines 421 and 430: the line logging.info appends
LogLine(i, r) ==
    IF r.is_good
    THEN [file |-> i, marker |-> "[ACCEPTED]", reasons |-> <<>>,
          log_string |-> r.log_string]
    ELSE [file |-> i, marker |-> "[REJECTED]", reasons |-> r.reasons,
          log_string |-> r.log_string]

\* lines 423 and 432: the destination of shutil.move
Destination(r) == IF r.is_good THEN "_GOOD_IMAGES" ELSE "_BAD_IMAGES"

\* lines 399-434: one iteration of the loop over files
ProcessFile ==
    /\ pc = "loop"
    /\ idx < Len(files)
    /\ LET e == files[idx + 1]
       IN \/ /\ Skipped(e)
             /\ idx' = idx + 1
             /\ UNCHANGED <<md, img, metrics, result, log, moves, pc, calls>>
          \/ /\ ~Skipped(e)
             /\ \E d \in MetadataFor(e), i \in ImagesFor(e) :
                 LET m == get_image_metrics(d, i)
                     r == evaluate_image(m, cfg)
                 IN /\ md' = d /\ img' = i /\ metrics' = m /\ result' = r
                    /\ calls' = Append(calls, [file |-> idx + 1, md |-> d, img |-> i])
                    /\ IF r.raised = None
                       THEN /\ log' = Append(log, LogLine(idx + 1, r))
                            /\ \E moved \in BOOLEAN :
                                moves' = Append(moves,
                                                [file |-> idx + 1,
                                                 dest |-> Destination(r),
                                                 ok |-> moved])
                            /\ idx' = idx + 1
                            /\ UNCHANGED pc
                       ELSE /\ pc' = "critical"
                            /\ UNCHANGED <<idx, log, moves>>
    /\ UNCHANGED <<cfg, listing, files>>

\* the loop is exhausted: line 444
Finish ==
    /\ pc = "loop"
    /\ idx = Len(files)
    /\ pc' = "done"
    /\ UNCHANGED <<cfg, md, img, metrics, result, listing, files, idx, log, moves, calls>>

\* lines 436-442, then line 444: the handler around the whole loop
CriticalError ==
    /\ pc = "critical"
    /\ pc' = "done"
    /\ UNCHANGED <<cfg, md, img, metrics, result, listing, files, idx, log, moves, calls>>

Next ==
    \/ ListImages
    \/ LocateExifTool
    \/ StartEngine
    \/ ProcessFile
    \/ Finish
    \/ CriticalError

Spec == Init /\ [][Next]_vars

----------------------------------------------------------------------------
(* Vocabulary of the properties *)

\* evaluate_image returned for the current file (it did not raise)
Returned == result.raised = None

\* the current record is a MeasurementRecord: its sizes and its focal length
\* are finite numbers
Typed(m) == m.width.t = "num" /\ m.height.t = "num" /\ m.focal_length.t = "num"

\* a verdict was returned for a typed record that loaded
Graded == Returned /\ Typed(metrics) /\ metrics.load_error = None

Kinds(reasons) == [i \in 1..Len(reasons) |-> reasons[i].kind]

HasKind(reasons, kinds) == \E i \in 1..Len(reasons) : reasons[i].kind \in kinds

CountKind(reasons, kinds) ==
    Cardinality({i \in 1..Len(reasons) : reasons[i].kind \in kinds})

\* the reasons each criterion can give
CriterionKinds ==
    [resolution |-> {"Low Resolution"}, zoom |-> {"Digital Zoom"},
     iso |-> {"High ISO"}, distance |-> {"Too Close"},
     speed |-> {"Moving Too Fast"}, blur |-> {"Blurry"},
     brightness |-> {"Too Dark", "Overexposed"}]

Criteria == DOMAIN CriterionKinds

Failed(r, k) == HasKind(r.reasons, CriterionKinds[k])

When(cond, kind) == IF cond THEN <<kind>> ELSE <<>>

\* the reasons section 4.2 of the specification asks for, in its order
ExpectedKinds(m, c) ==
    When(m.width.v < c.min_w \/ m.height.v < c.min_h, "Low Resolution")
    \o When(m.digital_zoom > c.max_zoom, "Digital Zoom")
    \o When(m.iso > c.max_iso, "High ISO")
    \o When(m.has_distance /\ m.distance < c.min_dist, "Too Close")
    \o When(m.speed > c.max_speed, "Moving Too Fast")
    \o When(m.blur_score < c.min_blur, "Blurry")
    \o When(m.brightness < c.min_bright, "Too Dark")
    \o When(~(m.brightness < c.min_bright) /\ m.brightness > c.max_bright,
            "Overexposed")

----------------------------------------------------------------------------
(* C1 *)

\* C1: a record whose load error is set is rejected with exactly one reason,
\* the load error text, and a diagnostic line that is the error message only,
\* whatever the other fields and the thresholds are.
C1_LoadErrorShortCircuits ==
    (result.raised # "pending" /\ metrics.load_error # None
        /\ metrics.width.t = "num" /\ metrics.height.t = "num")
    => /\ Returned
       /\ ~result.is_good
       /\ result.reasons = <<Reason(metrics.load_error, <<>>)>>
       /\ Len(result.log_string) = 1
       /\ result.log_string[1].label = "[ERROR] Could not load image"
       /\ result.log_string[1].text = metrics.load_error

\* a load error on a record that also fails criteria graded before the test
C1_Witness ==
    /\ Returned
    /\ metrics.load_error # None
    /\ Len(EarlyChecks(metrics, cfg).reasons) >= 2
    /\ Len(result.reasons) = 1

----------------------------------------------------------------------------
(* C2 *)

AllCriteriaHold(m, c) ==
    /\ m.width.v >= c.min_w
    /\ m.height.v >= c.min_h
    /\ m.digital_zoom <= c.max_zoom
    /\ m.iso <= c.max_iso
    /\ (~m.has_distance \/ m.distance >= c.min_dist)
    /\ m.speed <= c.max_speed
    /\ m.blur_score >= c.min_blur
    /\ c.min_bright <= m.brightness
    /\ m.brightness <= c.max_bright

\* C2: without a load error the verdict is accepted exactly when every
\* criterion holds (a missing distance counting as passing), and exactly when
\* the reasons list is empty.
C2_AcceptedIffAllPass ==
    Graded => /\ result.is_good <=> AllCriteriaHold(metrics, cfg)
              /\ result.is_good <=> (result.reasons = <<>>)

\* the scenario of the specification: 4000x3000, zoom 1.0, ISO 400, 50 m,
\* 1.2 m/s, blur 300, brightness 120, default thresholds
C2_Witness ==
    /\ Graded
    /\ cfg = DefaultConfig
    /\ metrics.width = Num(4000) /\ metrics.height = Num(3000)
    /\ metrics.digital_zoom = 1000 /\ metrics.iso = 400
    /\ metrics.has_distance /\ metrics.distance = 50000
    /\ metrics.speed = 1200
    /\ metrics.blur_score = 300000 /\ metrics.brightness = 120000
    /\ result.is_good
    /\ result.reasons = <<>>

----------------------------------------------------------------------------
(* C3 *)

\* C3: without a load error the reasons list holds exactly one entry per
\* failing criterion, in the order resolution, digital zoom, ISO, distance,
\* speed, blur, brightness: an earlier failure stops no later check.
C3_OneReasonPerFailureInOrder ==
    Graded => Kinds(result.reasons) = ExpectedKinds(metrics, cfg)

\* a record failing the first, a middle and the last two criteria
C3_Witness ==
    /\ Graded
    /\ Len(result.reasons) >= 5
    /\ result.reasons[1].kind = "Low Resolution"
    /\ HasKind(result.reasons, {"Blurry"})
    /\ HasKind(result.reasons, {"Too Dark"})

----------------------------------------------------------------------------
(* C4 *)

\* line 135 is reached (nothing before it raised) and float(dist) succeeds
DistanceParsed(d) ==
    /\ d.lookup = "ok"
    /\ FloatOk(Get(d.DigitalZoomRatio, 1000))
    /\ IntOk(Get(d.ISO, 0))
    /\ FloatOk(FocalRaw(d))
    /\ d.LRFTargetDistance.t = "num"

NoLrfSegment == [label |-> "Dist", text |-> "N/A (No LRF)", num |-> 0, status |-> ""]

----------------------------------------------------------------------------
(* C5 *)

\* the lookup raised or returned no record
MetaFailed == md.lookup \in {"throws", "empty"}

VisualInBounds(m, c) ==
    /\ m.load_error = None
    /\ m.blur_score >= c.min_blur
    /\ c.min_bright <= m.brightness
    /\ m.brightness <= c.max_bright

\* C5 as stated: after a metadata-source failure the record, when its blur and
\* brightness are within bounds, is not rejected under the default thresholds.
C5_Original ==
    (Returned /\ MetaFailed /\ cfg = DefaultConfig /\ VisualInBounds(metrics, cfg))
    => result.is_good

\* C5 (amended): a metadata-source failure is not fatal: meta_error is set,
\* every metadata-derived field keeps its default and evaluation returns; under
\* the default thresholds the record, when its blur and brightness are within
\* bounds, is rejected with the single reason Low Resolution (0x0): the default
\* zoom, ISO, distance and speed give no reason, the default 0x0 size does.
C5_MetadataFailureKeepsDefaults ==
    (result.raised # "pending" /\ MetaFailed)
    => /\ metrics.meta_error # None
       /\ [metrics EXCEPT !.blur_score = 0, !.brightness = 0,
                          !.load_error = None, !.meta_error = None]
          = InitialMetrics
       /\ Returned
       /\ (cfg = DefaultConfig /\ VisualInBounds(metrics, cfg))
          => /\ ~result.is_good
             /\ result.reasons = <<Reason("Low Resolution", <<Num(0), Num(0)>>)>>

\* a sharp, well-lit image whose metadata lookup failed, under the defaults
C5_Witness ==
    /\ Returned
    /\ MetaFailed
    /\ cfg = DefaultConfig
    /\ VisualInBounds(metrics, cfg)
    /\ ~result.is_good

----------------------------------------------------------------------------
(* C6 *)

SpeedTagParses(d) ==
    /\ d.FlightSpeed.t = "str"
    /\ Len(d.FlightSpeed.parts) >= 3
    /\ \A i \in 1..Len(d.FlightSpeed.parts) : d.FlightSpeed.parts[i].t = "num"

\* r is the Euclidean magnitude of (x, y, z), to the nearest thousandth
IsMagnitude(r, x, y, z) ==
    /\ r >= 0
    /\ (2 * r - 1) * (2 * r - 1) <= 4 * (x * x + y * y + z * z)
    /\ 4 * (x * x + y * y + z * z) < (2 * r + 1) * (2 * r + 1)

\* C6: for every mapping the source returns, the speed is the magnitude of the
\* first three components when the speed tag parses and 0.0 otherwise, also
\* when the zoom, ISO, focal-length or distance tag of the mapping is
\* unparsable.
C6_ParseFailureAbsorbedLocally ==
    (result.raised # "pending" /\ md.lookup = "ok")
    => IF SpeedTagParses(md)
       THEN IsMagnitude(metrics.speed, md.FlightSpeed.parts[1].v,
                        md.FlightSpeed.parts[2].v, md.FlightSpeed.parts[3].v)
       ELSE metrics.speed = 0

\* the speed of a mapping whose tags all parse
C6_Witness ==
    /\ result.raised # "pending"
    /\ md.lookup = "ok"
    /\ metrics.meta_error = None
    /\ SpeedTagParses(md)
    /\ metrics.speed = 5000

----------------------------------------------------------------------------
(* C7 *)

NotSkippedIndex(i) == ~Skipped(files[i])

\* the entries of files the loop has consumed and not skipped, in order
ProcessedIndexes == SelectSeq([i \in 1..idx |-> i], NotSkippedIndex)

\* the verdict of the k-th call's answers
VerdictOf(k) == evaluate_image(get_image_metrics(calls[k].md, calls[k].img), cfg)

\* the loop body ran at least once
LoopEntered == idx > 0 \/ result.raised # "pending"

\* C7: every selected file gets, in listing order, exactly one audit line with
\* its verdict's marker (and reasons when rejected) and exactly one move to the
\* matching folder; a failed move stops nothing, no file's extraction or
\* evaluation stops the later files, and the run ends with every file handled.
C7_EveryFileProcessed ==
    /\ [k \in 1..Len(log) |-> log[k].file] = ProcessedIndexes
    /\ [k \in 1..Len(moves) |-> moves[k].file] = ProcessedIndexes
    /\ \A k \in 1..Len(log) :
        LET v == VerdictOf(k)
        IN /\ calls[k].file = log[k].file
           /\ log[k].marker = IF v.is_good THEN "[ACCEPTED]" ELSE "[REJECTED]"
           /\ ~v.is_good => log[k].reasons = v.reasons
           /\ moves[k].dest = IF v.is_good THEN "_GOOD_IMAGES" ELSE "_BAD_IMAGES"
    /\ pc # "critical" \/ ~LoopEntered
    /\ (pc = "done" /\ LoopEntered) => idx = Len(files)

\* a batch that went on after a failed move
C7_Witness ==
    /\ pc = "done"
    /\ Len(moves) = 2
    /\ ~moves[1].ok
    /\ idx = Len(files)

----------------------------------------------------------------------------
(* C8 *)

Segment(label) ==
    CHOOSE g \in {result.log_string[i] : i \in 1..Len(result.log_string)} :
        g.label = label

\* num is val rendered with steps of q thousandths
Rounds(num, val, q) == -q <= 2 * (q * num - val) /\ 2 * (q * num - val) <= q

PassFail(cond) == IF cond THEN "(PASS)" ELSE "(FAIL)"

\* the parts of the diagnostic line that do not depend on the wording of the
\* brightness annotation
DiagnosticLine ==
    /\ [i \in 1..Len(result.log_string) |-> result.log_string[i].label]
       = <<"Lens", "DigZoom", "Dist", "Speed", "Blur", "Bright">>
    /\ Segment("Lens").text
       = IF metrics.focal_length.v <= 80000 THEN "Wide" ELSE "Zoom"
    /\ Segment("DigZoom").status
       = PassFail(metrics.digital_zoom <= cfg.max_zoom)
    /\ Rounds(Segment("DigZoom").num, metrics.digital_zoom, 10)
    /\ IF metrics.has_distance
       THEN /\ Segment("Dist").status = PassFail(metrics.distance >= cfg.min_dist)
            /\ Rounds(Segment("Dist").num, metrics.distance, 10)
       ELSE Segment("Dist") = NoLrfSegment
    /\ Segment("Speed").status = PassFail(metrics.speed <= cfg.max_speed)
    /\ Rounds(Segment("Speed").num, metrics.speed, 10)
    /\ Segment("Blur").status = PassFail(metrics.blur_score >= cfg.min_blur)
    /\ Rounds(Segment("Blur").num, metrics.blur_score, 10)
    /\ Rounds(Segment("Bright").num, metrics.brightness, 100)
    /\ (Segment("Bright").status = "(PASS)")
       <=> (cfg.min_bright <= metrics.brightness
            /\ metrics.brightness <= cfg.max_bright)
    /\ (Segment("DigZoom").status # "(PASS)") <=> Failed(result, "zoom")
    /\ (metrics.has_distance /\ Segment("Dist").status # "(PASS)")
       <=> Failed(result, "distance")
    /\ (Segment("Speed").status # "(PASS)") <=> Failed(result, "speed")
    /\ (Segment("Blur").status # "(PASS)") <=> Failed(result, "blur")
    /\ (Segment("Bright").status # "(PASS)") <=> Failed(result, "brightness")
    /\ \A f \in {0, 80000, 80001, 200000} :
        LET other == evaluate_image([metrics EXCEPT !.focal_length = Num(f)], cfg)
        IN other.is_good = result.is_good /\ other.reasons = result.reasons

\* C8 as stated: the line is the lens label and the five criteria in order,
\* each annotated "(PASS)" or "(FAIL)" on the raw value, FAIL exactly when the
\* criterion has a reason; the focal length changes the label only.
C8_Original ==
    Graded => /\ DiagnosticLine
              /\ Segment("Bright").status \in {"(PASS)", "(FAIL)"}

\* C8 (amended): as stated, except that a failing brightness is annotated
\* "(FAIL: Dark)" or "(FAIL: Bright)" rather than "(FAIL)".
C8_DiagnosticLine ==
    Graded => /\ DiagnosticLine
              /\ Segment("Bright").status
                 = IF metrics.brightness < cfg.min_bright THEN "(FAIL: Dark)"
                   ELSE IF metrics.brightness > cfg.max_bright THEN "(FAIL: Bright)"
                   ELSE "(PASS)"

\* a zoom that fails although it is displayed as the threshold is, on a dark
\* image taken with a long lens
C8_Witness ==
    /\ Graded
    /\ metrics.digital_zoom > cfg.max_zoom
    /\ Segment("DigZoom").num = Fmt2(cfg.max_zoom)
    /\ Segment("DigZoom").status = "(FAIL)"
    /\ Segment("Bright").status = "(FAIL: Dark)"

\* a long lens changes the label of an accepted image only
C8_WitnessZoomLens ==
    /\ Graded
    /\ Segment("Lens").text = "Zoom"
    /\ result.is_good

----------------------------------------------------------------------------
(* C9 *)

\* C9: the reasons hold at most one brightness entry, "Too Dark" when the
\* brightness is under min_bright, otherwise "Overexposed" when it is over
\* max_bright, also when min_bright > max_bright.
C9_OneBrightnessReason ==
    Graded
    => /\ CountKind(result.reasons, {"Too Dark", "Overexposed"}) <= 1
       /\ HasKind(result.reasons, {"Too Dark"})
          <=> metrics.brightness < cfg.min_bright
       /\ HasKind(result.reasons, {"Overexposed"})
          <=> (~(metrics.brightness < cfg.min_bright)
               /\ metrics.brightness > cfg.max_bright)

\* crossed bounds, and a brightness under the one and over the other
C9_Witness ==
    /\ Graded
    /\ cfg.min_bright > cfg.max_bright
    /\ metrics.brightness < cfg.min_bright
    /\ metrics.brightness > cfg.max_bright
    /\ HasKind(result.reasons, {"Too Dark"})

----------------------------------------------------------------------------
(* C10 *)

\* the configurations that tighten one threshold of c, each with the
\* criterion the threshold belongs to
Tightenings(c) ==
    {<<"resolution", [c EXCEPT !.min_w = @ + d]>> : d \in {1, 1001}}
    \cup {<<"resolution", [c EXCEPT !.min_h = @ + d]>> : d \in {1, 1001}}
    \cup {<<"zoom", [c EXCEPT !.max_zoom = @ - d]>> : d \in {4, 1000}}
    \cup {<<"iso", [c EXCEPT !.max_iso = @ - d]>> : d \in {1, 1300}}
    \cup {<<"distance", [c EXCEPT !.min_dist = @ + d]>> : d \in {4, 40000}}
    \cup {<<"speed", [c EXCEPT !.max_speed = @ - d]>> : d \in {1, 4000}}
    \cup {<<"blur", [c EXCEPT !.min_blur = @ + d]>> : d \in {4, 250000}}
    \cup {<<"brightness", [c EXCEPT !.min_bright = @ + d]>> : d \in {40, 110000}}
    \cup {<<"brightness", [c EXCEPT !.max_bright = @ - d]>> : d \in {40, 130000}}

\* C10: tightening one threshold can turn its criterion from pass to fail
\* only, leaves every other criterion as it was, and never turns a rejected
\* verdict into an accepted one; evaluating again gives the same result.
C10_TighteningIsMonotone ==
    Graded
    => /\ \A t \in Tightenings(cfg) :
            LET tighter == evaluate_image(metrics, t[2])
            IN /\ tighter.raised = None
               /\ Failed(result, t[1]) => Failed(tighter, t[1])
               /\ \A k \in Criteria \ {t[1]} :
                    Failed(result, k) <=> Failed(tighter, k)
               /\ ~result.is_good => ~tighter.is_good
       /\ evaluate_image(metrics, cfg) = result

\* an accepted record that a tighter blur threshold rejects
C10_Witness ==
    /\ Graded
    /\ result.is_good
    /\ \E t \in Tightenings(cfg) :
        /\ t[1] = "blur"
        /\ Failed(evaluate_image(metrics, t[2]), "blur")

====
